---- MODULE Spec2Model ----
(***************************************************************************)
(* FindShop-vue: the HTTP streaming helpers of utils/http                  *)
(* (src/unnamed/part_001): fetchWithTimeout, the request with a deadline,  *)
(* postStream, the chunked reader, and postStreamRealtime, which feeds the *)
(* chunks of a streamed response into a MediaSource/SourceBuffer pair and  *)
(* resolves once playback can begin.                                       *)
(*                                                                         *)
(* One behaviour is one call of one of these functions.  The browser is    *)
(* the environment: the network (fetch, reader.read), the MediaSource      *)
(* (sourceopen, the end of an append, updateend), the timers and the       *)
(* audio element.  JavaScript runs each callback to completion, so one     *)
(* action is one task of the event loop together with the promise          *)
(* continuations (microtasks) that it releases.                            *)
(*                                                                         *)
(* The second part is the WebSocketManager of src/utils/websocket.js,      *)
(* configured by src/unnamed/part_000: connect, close, send, the handlers  *)
(* of its transports, the heartbeat interval, the reconnect timer and the  *)
(* callback registry.  Its behaviours are those of SpecWS, SpecRetry and   *)
(* SpecBus; the browser's transports and timers are the environment.       *)
(***************************************************************************)
EXTENDS Integers, Sequences, FiniteSets, TLC

\* ------------------------------------------------------------ bounds

\* chunks the response body delivers at most, where the feeder is studied
MaxChunks ==
    7

\* chunks the response body delivers at most, where the whole call is studied
MaxBody ==
    2

\* appendBuffer calls that throw in one session at most
MaxThrows ==
    1

\* byte lengths a chunk may have
ChunkLens ==
    {1, 2}

\* ------------------------------------------------------------ constants

\* part_001:345  if (pendingChunks.length > 5)
PendingLimit ==
    5

None ==
    "none"

\* mime types: the fixed fallback of the code and one other type
MimeTypes ==
    {"audio/mpeg", "audio/x"}

Last(s) ==
    s[Len(s)]

VARIABLES
    fn,                 \* which function was called
    pc,                 \* where the reading task is suspended
    nread,              \* chunks the reader has delivered
    cur,                \* chunk held across `await sourceOpenPromise`
    totalBytes,         \* let totalBytes
    lastReceived,       \* `received` of the latest onChunk call
    sumRead,            \* sum of value.length over the chunks read
    chunks,             \* postStream: const chunks = []
    sourceBuffer,       \* let sourceBuffer (None, or the writer)
    updating,           \* sourceBuffer.updating
    updateendQueued,    \* updateend events queued, not yet dispatched
    isSourceOpen,       \* let isSourceOpen
    readyState,         \* mediaSource.readyState
    pendingChunks,      \* let pendingChunks
    hasFirstChunk,      \* let hasFirstChunk
    streamEnded,        \* let streamEnded
    detectedMimeType,   \* let detectedMimeType
    appendLog,          \* every appendBuffer call, in order: the chunk,
                        \* whether it was accepted, and updating at the call
    eosLog,             \* every endOfStream call, with the state it saw
    addLog,             \* every addSourceBuffer call: the type and the outcome
    timeoutId,          \* the request deadline timer is armed
    aborted,            \* controller.abort() has run
    checkFirstChunk,    \* the 5 ms interval is active
    bufferCheckInterval,\* the 100 ms interval is active
    elapsedOver,        \* Date.now() - startTime > 1000
    bufferedOver,       \* total of audio.buffered > 1
    polledAfterCeiling, \* tryStartPlayback has run with elapsedOver, the
                        \* MediaSource being open
    overallTimer,       \* the 10000 ms timer is armed
    audioErrored,       \* the audio element has fired 'error'
    streamError,        \* the error caught by the reading task
    streamPromise,      \* state of streamPromise
    promiseState,       \* state of the returned promise
    rejectReason,       \* what it was rejected with
    wsState,            \* src/utils/websocket.js: None until the module is
                        \* evaluated, then the WebSocketManager it exports
                        \* with the transports and timers of that instance
    ttsState            \* the call of textToSpeechRealtime, if there is
                        \* one: where it is (stage), the calls of the
                        \* caller's callbacks and the listeners it has put
                        \* on the audio element

vars ==
    << wsState, fn, pc, nread, cur, totalBytes, lastReceived, sumRead,
       chunks, sourceBuffer, updating, updateendQueued, isSourceOpen,
       readyState, pendingChunks, hasFirstChunk, streamEnded,
       detectedMimeType, appendLog, eosLog, addLog, timeoutId, aborted,
       checkFirstChunk, bufferCheckInterval, elapsedOver, bufferedOver,
       polledAfterCeiling, overallTimer, audioErrored, streamError,
       streamPromise, promiseState, rejectReason, ttsState >>

readerVars ==
    << nread, totalBytes, lastReceived, sumRead >>

feederVars ==
    << sourceBuffer, updating, pendingChunks, readyState, streamEnded,
       appendLog, eosLog >>

gateVars ==
    << checkFirstChunk, bufferCheckInterval, elapsedOver, polledAfterCeiling,
       overallTimer, audioErrored >>

\* the returned promise, with the call that awaits it
promiseVars ==
    << promiseState, rejectReason, timeoutId, ttsState >>

\* ------------------------------------------------------------ the feeder

\* the variables flushPendingChunks and the read loop share, as one value
Feeder ==
    [ sourceBuffer |-> sourceBuffer, updating |-> updating,
      pendingChunks |-> pendingChunks, readyState |-> readyState,
      streamEnded |-> streamEnded, appendLog |-> appendLog,
      eosLog |-> eosLog ]

SetFeeder(s) ==
    /\ sourceBuffer' = s.sourceBuffer
    /\ updating' = s.updating
    /\ pendingChunks' = s.pendingChunks
    /\ readyState' = s.readyState
    /\ streamEnded' = s.streamEnded
    /\ appendLog' = s.appendLog
    /\ eosLog' = s.eosLog

ThrowCount ==
    Cardinality({i \in DOMAIN appendLog : ~appendLog[i].ok})

\* whether an appendBuffer call of this step may throw
MayThrow ==
    IF ThrowCount < MaxThrows THEN BOOLEAN ELSE {FALSE}

\* sourceBuffer.appendBuffer(chunk): throws InvalidStateError while updating,
\* and may throw for the browser's own reasons (quota, element error);
\* accepted, it sets updating and reopens an ended MediaSource
appendBuffer(s, chunk, throws) ==
    LET fails == s.updating \/ throws
        entry == [chunk |-> chunk, ok |-> ~fails, busy |-> s.updating]
    IN  [s EXCEPT !.appendLog = Append(@, entry),
                  !.updating = IF fails THEN @ ELSE TRUE,
                  !.readyState = IF ~fails /\ @ = "ended" THEN "open" ELSE @]

\* the condition of line 232 without pendingChunks.length === 0
CanEndOfStream_NoPendingCheck(s) ==
    s.streamEnded /\ ~s.updating /\ s.readyState = "open"

\* part_001:232  the condition guarding mediaSource.endOfStream()
CanEndOfStream(s) ==
    /\ s.streamEnded
    /\ Len(s.pendingChunks) = 0
    /\ ~s.updating
    /\ s.readyState = "open"

\* part_001:220-229  while (pendingChunks.length > 0 && !sourceBuffer.updating)
RECURSIVE FlushLoop(_, _)
FlushLoop(s, throws) ==
    IF Len(s.pendingChunks) > 0 /\ ~s.updating
    THEN LET chunk == Head(s.pendingChunks)
             shifted == [s EXCEPT !.pendingChunks = Tail(@)]
             s1 == appendBuffer(shifted, chunk, throws)
         IN  IF Last(s1.appendLog).ok
             THEN FlushLoop(s1, throws)
             ELSE s1                       \* catch: break
    ELSE s

flushPendingChunks(s, throws) ==
    IF s.sourceBuffer = None \/ s.updating
    THEN s
    ELSE LET s1 == FlushLoop(s, throws)
         IN  IF CanEndOfStream(s1)
             THEN [s1 EXCEPT !.readyState = "ended",
                             !.eosLog = Append(@,
                                 [streamEnded |-> s1.streamEnded,
                                  pending |-> Len(s1.pendingChunks),
                                  updating |-> s1.updating])]
             ELSE s1

\* the direct path without the check of line 332
DirectGuard_Always(s) ==
    TRUE

\* part_001:332  the direct path is taken only when the writer is idle
DirectGuard(s) ==
    ~s.updating

\* part_001:331-352  what the read loop does with a chunk once
\* sourceOpenPromise has resolved; the second component says whether the
\* loop then pauses for 50 ms
FeedChunk(s, open, chunk, throws) ==
    IF open /\ s.sourceBuffer # None
    THEN LET s1 == IF DirectGuard(s)
                   THEN LET a == appendBuffer(s, chunk, throws)
                        IN  IF Last(a.appendLog).ok
                            THEN a
                            ELSE [a EXCEPT !.pendingChunks = Append(@, chunk)]
                   ELSE [s EXCEPT !.pendingChunks = Append(@, chunk)]
         IN  << s1, Len(s1.pendingChunks) > PendingLimit >>
    ELSE << [s EXCEPT !.pendingChunks = Append(@, chunk)], FALSE >>

\* ------------------------------------------------------------ the promise

\* websocket.js:306  textToSpeechRealtime(text, options) is called
textToSpeechRealtime ==
    [ stage |-> "called",
      onStart |-> 0,
      onComplete |-> 0,
      onError |-> 0,
      endedListener |-> FALSE,
      errorListener |-> FALSE,
      endedEvents |-> 0,
      result |-> "pending" ]

\* textToSpeechRealtime is not called
NoCall ==
    [textToSpeechRealtime EXCEPT !.stage = "none"]

\* one more call of a callback of the caller (onStart, onComplete, onError)
countCall(n) ==
    n + 1

\* websocket.js:362-366  the outer catch: its `onError` is the const of the
\* try block, which is not in scope here, so that evaluating it throws a
\* ReferenceError and the call rejects with that
outerCatch(t) ==
    [t EXCEPT !.stage = "returned", !.result = "ReferenceError"]

\* websocket.js:357-361  the inner catch: onError(...), then throw
innerCatch(t) ==
    outerCatch([t EXCEPT !.onError = countCall(@)])

\* websocket.js:323-332  `await postStreamRealtime(...)` is over: on a
\* resolved promise audio.play() is called and awaited, a rejected one is
\* thrown into the inner catch
Awaited(t, state) ==
    IF t.stage # "awaitStream"
    THEN t
    ELSE IF state = "resolved"
    THEN [t EXCEPT !.stage = "awaitPlay"]
    ELSE innerCatch(t)

\* resolve/reject of the returned promise; the first call settles it and
\* .finally(() => clearTimeout(timeoutId)) runs on settling; a caller that
\* awaits the promise goes on in the same task
Settle(state, reason) ==
    IF promiseState = "pending"
    THEN /\ promiseState' = state
         /\ rejectReason' = reason
         /\ timeoutId' = FALSE
         /\ ttsState' = Awaited(ttsState, state)
    ELSE UNCHANGED promiseVars

\* the running total overwritten instead of increased
NextTotal_Assign(total, len) ==
    len

\* part_001:172 / 320  totalBytes += value.length
NextTotal(total, len) ==
    total + len

\* ------------------------------------------------------------ WebSocketManager: configuration

\* transports the manager constructs at most in one behaviour
MaxSockets ==
    2

\* subscriptions made at most, where the dispatcher is studied
MaxSubs ==
    3

\* part_000:26  autoReconnect: true
autoReconnect ==
    TRUE

\* part_000:27  reconnectInterval: 3000
reconnectInterval ==
    3000

\* part_000:28  reconnectAttempts: 5
reconnectAttempts ==
    5

\* part_000:29  heartbeat: true
heartbeat ==
    TRUE

\* part_000:30  heartbeatInterval: 30000
heartbeatInterval ==
    30000

\* part_000:9  WS_PATH, the default of connect(path = WS_CONFIG.WS_PATH)
WS_PATH ==
    "/ws"

\* the paths connect() is called with: the default and one other
Paths ==
    {WS_PATH, "/chat"}

\* the tags the manager publishes itself, and two tags of inbound messages
\* (part_000:35-44  WS_MESSAGE_TYPES)
Tags ==
    {"open", "close", "error", "reconnectFailed", "message", "answer"}

\* ------------------------------------------------------------ WebSocketManager: the state

\* websocket.js:9-17  constructor: the fields of the instance, with the
\* transports it has constructed (sockets: readyState, url and the promise
\* connect() returned), the timers it has armed, two counts kept for the
\* properties, and what its latest task published, called, sent and returned
constructor ==
    [ ws |-> 0,
      url |-> "",
      reconnectTimer |-> 0,
      heartbeatTimer |-> 0,
      reconnectCount |-> 0,
      callbacks |-> [t \in Tags |-> << >>],
      isManualClose |-> FALSE,
      sockets |-> << >>,
      reconnectTimers |-> {},
      heartbeats |-> {},
      unexpectedCloses |-> 0,
      scheduled |-> 0,
      published |-> << >>,
      called |-> << >>,
      sent |-> << >>,
      callResult |-> None ]

\* this.ws: 0 (null) or the index of a transport
ws ==
    wsState.ws

\* every WebSocket the manager has constructed
sockets ==
    wsState.sockets

\* this.url
url ==
    wsState.url

\* this.reconnectTimer: 0 (null) or a timer id
reconnectTimer ==
    wsState.reconnectTimer

\* this.heartbeatTimer: 0 (null) or a timer id
heartbeatTimer ==
    wsState.heartbeatTimer

\* the setTimeout timers that are armed
reconnectTimers ==
    wsState.reconnectTimers

\* the setInterval timers that are active
heartbeats ==
    wsState.heartbeats

\* this.reconnectCount
reconnectCount ==
    wsState.reconnectCount

\* close events since the latest open that found isManualClose false
unexpectedCloses ==
    wsState.unexpectedCloses

\* reconnect timers armed since the latest open
scheduled ==
    wsState.scheduled

\* this.isManualClose
isManualClose ==
    wsState.isManualClose

\* this.callbacks: tag -> callbacks, in push order
callbacks ==
    wsState.callbacks

\* the emit calls of the latest task, in order
published ==
    wsState.published

\* the callbacks the latest task invoked, in order
called ==
    wsState.called

\* what the latest task handed to a transport's send()
sent ==
    wsState.sent

\* how the call of connect, close or send that the latest task was returned
\* (None: the task was no call)
callResult ==
    wsState.callResult

\* ------------------------------------------------------------ Init

\* part_001:196-211  the variables of a call of helper f as it begins,
\* its timers armed; armed is false as long as the call has not been made
Called(f, armed) ==
    /\ fn = f
    /\ pc = "fetch"
    /\ nread = 0
    /\ cur = 0
    /\ totalBytes = 0
    /\ lastReceived = 0
    /\ sumRead = 0
    /\ chunks = << >>
    /\ sourceBuffer = None
    /\ updating = FALSE
    /\ updateendQueued = 0
    /\ isSourceOpen = FALSE
    /\ readyState = "closed"
    /\ pendingChunks = << >>
    /\ hasFirstChunk = FALSE
    /\ streamEnded = FALSE
    /\ detectedMimeType = None
    /\ appendLog = << >>
    /\ eosLog = << >>
    /\ addLog = << >>
    /\ timeoutId = armed
    /\ aborted = FALSE
    /\ checkFirstChunk = (armed /\ fn = "postStreamRealtime")
    /\ bufferCheckInterval = FALSE
    /\ elapsedOver = FALSE
    /\ bufferedOver = FALSE
    /\ polledAfterCeiling = FALSE
    /\ overallTimer = (armed /\ fn = "postStreamRealtime")
    /\ audioErrored = FALSE
    /\ streamError = None
    /\ streamPromise = "pending"
    /\ promiseState = "pending"
    /\ rejectReason = None

\* one call of one of the HTTP helpers begins; nobody awaits it through
\* textToSpeechRealtime
InitHttp ==
    /\ \E f \in {"fetchWithTimeout", "postStream", "postStreamRealtime"} :
           Called(f, TRUE)
    /\ ttsState = NoCall

\* utils/http does not import utils/websocket: in the behaviours of the HTTP
\* helpers that module is not evaluated
Init ==
    /\ InitHttp
    /\ wsState = None

\* ------------------------------------------------------------ postStreamRealtime: the reading task

RT ==
    fn = "postStreamRealtime"

\* part_001:287-362  streamPromise is an async function whose body catches
\* every error, so it fulfils whatever happened inside
StreamTaskOutcome(threw) ==
    "fulfilled"

\* part_001:423-428  streamPromise.catch(...)
StreamPromiseCatch(outcome, error) ==
    IF outcome = "rejected" /\ ~hasFirstChunk
    THEN /\ checkFirstChunk' = FALSE
         /\ Settle("rejected", error)
    ELSE UNCHANGED << checkFirstChunk, promiseVars >>

\* a catch after which the loop goes on reading
StreamCatch_KeepsReading(error) ==
    /\ streamEnded' = TRUE
    /\ streamError' = error
    /\ pc' = "read"
    /\ UNCHANGED << wsState, fn, readerVars, cur, chunks, sourceBuffer,
                    updating, updateendQueued, isSourceOpen, readyState,
                    pendingChunks, hasFirstChunk, detectedMimeType, appendLog,
                    eosLog, addLog, aborted, gateVars, bufferedOver,
                    streamPromise, promiseVars >>

\* part_001:354-361  catch (error) { ...; streamEnded = true }
StreamCatch(error) ==
    /\ streamEnded' = TRUE
    /\ streamError' = error
    /\ pc' = "failed"
    /\ streamPromise' = StreamTaskOutcome(TRUE)
    /\ StreamPromiseCatch(streamPromise', error)
    /\ UNCHANGED << wsState, fn, readerVars, cur, chunks, sourceBuffer,
                    updating, updateendQueued, isSourceOpen, readyState,
                    pendingChunks, hasFirstChunk, detectedMimeType, appendLog,
                    eosLog, addLog, aborted, bufferCheckInterval, elapsedOver,
                    bufferedOver, polledAfterCeiling, overallTimer,
                    audioErrored >>

\* part_001:289-308  the response arrives with a success status
RT_FetchResponds(contentType) ==
    /\ RT /\ pc = "fetch" /\ ~aborted
    /\ detectedMimeType' =
          IF contentType # None THEN contentType ELSE detectedMimeType
    /\ pc' = "read"
    /\ UNCHANGED << wsState, fn, readerVars, cur, chunks, feederVars,
                    updateendQueued, isSourceOpen, hasFirstChunk, addLog,
                    aborted, gateVars, bufferedOver, streamError,
                    streamPromise, promiseVars >>

\* the status codes of the responses that are not ok
ErrorStatuses ==
    {404, 500}

\* part_001:160 / 297  new Error(`HTTP Error: ${response.status}`)
HttpStatusError(status) ==
    "HTTP Error: " \o ToString(status)

\* the errors a pending fetch or read of postStreamRealtime can end with;
\* its read loop is suspended elsewhere between two reads, so that a read
\* issued after the abort may still meet an earlier failure of the body
FailureReasons(isFetch) ==
    {"TransportError"}
      \cup (IF aborted THEN {"AbortError"} ELSE {})
      \cup (IF isFetch /\ ~aborted
            THEN {HttpStatusError(s) : s \in ErrorStatuses} ELSE {})

\* part_001:289-298  fetch rejects, or the status is not ok
RT_FetchFails(error) ==
    /\ RT /\ pc = "fetch"
    /\ error \in FailureReasons(TRUE)
    /\ StreamCatch(error)

\* part_001:311-352  reader.read() delivers a chunk
RT_ReadChunk(len, throws, bound) ==
    /\ RT /\ pc = "read" /\ ~aborted
    /\ nread < bound
    /\ nread' = nread + 1
    /\ totalBytes' = NextTotal(totalBytes, len)
    /\ lastReceived' = totalBytes'
    /\ sumRead' = sumRead + len
    /\ hasFirstChunk' = TRUE
    /\ IF isSourceOpen
       THEN LET r == FeedChunk(Feeder, isSourceOpen, nread', throws)
            IN  /\ SetFeeder(r[1])
                /\ pc' = IF r[2] THEN "pause" ELSE "read"
                /\ cur' = 0
       ELSE /\ pc' = "awaitOpen"
            /\ cur' = nread'
            /\ UNCHANGED feederVars
    /\ UNCHANGED << wsState, fn, chunks, updateendQueued, isSourceOpen,
                    detectedMimeType, addLog, aborted, gateVars, bufferedOver,
                    streamError, streamPromise, promiseVars >>

\* part_001:313-318  reader.read() reports done
RT_ReadDone(throws) ==
    /\ RT /\ pc = "read" /\ ~aborted
    /\ SetFeeder(flushPendingChunks([Feeder EXCEPT !.streamEnded = TRUE],
                                    throws))
    /\ pc' = "done"
    /\ streamPromise' = StreamTaskOutcome(FALSE)
    /\ StreamPromiseCatch(streamPromise', None)
    /\ UNCHANGED << wsState, fn, readerVars, cur, chunks,
                    updateendQueued, isSourceOpen, hasFirstChunk,
                    detectedMimeType, addLog, aborted, bufferCheckInterval,
                    elapsedOver, bufferedOver, polledAfterCeiling,
                    overallTimer, audioErrored, streamError >>

\* part_001:311  reader.read() rejects
RT_ReadFails(error) ==
    /\ RT /\ pc = "read"
    /\ error \in FailureReasons(FALSE)
    /\ StreamCatch(error)

\* part_001:347  the 50 ms pause is over
RT_PauseElapsed ==
    /\ RT /\ pc = "pause"
    /\ pc' = "read"
    /\ UNCHANGED << wsState, fn, readerVars, cur, chunks, feederVars,
                    updateendQueued, isSourceOpen, hasFirstChunk,
                    detectedMimeType, addLog, aborted, gateVars, bufferedOver,
                    streamError, streamPromise, promiseVars >>

\* ------------------------------------------------------------ postStreamRealtime: the MediaSource

\* part_001:249  detectedMimeType || options.responseType || 'audio/mpeg'
MimeChoice(responseType) ==
    IF detectedMimeType # None THEN detectedMimeType
    ELSE IF responseType # None THEN responseType
    ELSE "audio/mpeg"

\* part_001:265  whether a failed creation is retried with audio/mpeg
RetriesFallback ==
    detectedMimeType # None /\ detectedMimeType # "audio/mpeg"

\* part_001:244-283  'sourceopen'; `supported` are the types the browser
\* accepts.  options.responseType is read here and nowhere else, so it is
\* drawn here.  The listener resolves sourceOpenPromise, which releases a
\* read loop suspended at line 329
SourceOpen(responseType, supported, throws) ==
    /\ RT /\ readyState = "closed" /\ ~isSourceOpen
    /\ isSourceOpen' = TRUE
    /\ LET first == MimeChoice(responseType)
           retry == first \notin supported /\ RetriesFallback
           made == \/ first \in supported
                   \/ retry /\ "audio/mpeg" \in supported
           s1 == [Feeder EXCEPT !.readyState = "open",
                                !.sourceBuffer =
                                    IF made THEN "writer" ELSE None]
       IN  /\ addLog' = IF retry
                        THEN << [type |-> first, ok |-> FALSE],
                                [type |-> "audio/mpeg",
                                 ok |-> "audio/mpeg" \in supported] >>
                        ELSE << [type |-> first, ok |-> first \in supported] >>
           /\ detectedMimeType' =
                 IF retry THEN "audio/mpeg" ELSE detectedMimeType
           /\ IF pc = "awaitOpen"
              THEN LET r == FeedChunk(s1, TRUE, cur, throws)
                   IN  /\ SetFeeder(r[1])
                       /\ pc' = IF r[2] THEN "pause" ELSE "read"
                       /\ cur' = 0
              ELSE /\ SetFeeder(s1)
                   /\ UNCHANGED << pc, cur >>
    /\ UNCHANGED << wsState, fn, readerVars, chunks, updateendQueued,
                    hasFirstChunk, aborted, gateVars, bufferedOver,
                    streamError, streamPromise, promiseVars >>

\* part_001:223/334  the browser ends an accepted append: updating becomes
\* false and an updateend event is queued; the buffered ranges may grow
AppendComplete(grows) ==
    /\ RT /\ updating
    /\ updating' = FALSE
    /\ updateendQueued' = updateendQueued + 1
    /\ bufferedOver' = (bufferedOver \/ grows)
    /\ UNCHANGED << wsState, fn, pc, readerVars, cur, chunks,
                    sourceBuffer, isSourceOpen, readyState, pendingChunks,
                    hasFirstChunk, streamEnded, detectedMimeType, appendLog,
                    eosLog, addLog, aborted, gateVars, streamError,
                    streamPromise, promiseVars >>

\* part_001:256-259  the 'updateend' listener
UpdateEnd(throws) ==
    /\ RT /\ updateendQueued > 0
    /\ updateendQueued' = updateendQueued - 1
    /\ SetFeeder(flushPendingChunks(Feeder, throws))
    /\ UNCHANGED << wsState, fn, pc, readerVars, cur, chunks,
                    isSourceOpen, hasFirstChunk, detectedMimeType, addLog,
                    aborted, gateVars, bufferedOver, streamError,
                    streamPromise, promiseVars >>

\* ------------------------------------------------------------ postStreamRealtime: the readiness gate

\* part_001:390
hasEnoughBuffer ==
    bufferedOver \/ elapsedOver

\* part_001:376-399
tryStartPlayback ==
    /\ polledAfterCeiling' =
          (polledAfterCeiling \/ (elapsedOver /\ isSourceOpen))
    /\ IF sourceBuffer # None /\ hasEnoughBuffer
       THEN /\ bufferCheckInterval' = FALSE
            /\ Settle("resolved", None)
       ELSE /\ bufferCheckInterval' = TRUE
            /\ UNCHANGED promiseVars

\* the 5 ms interval without the check of line 368
SeesFirstChunk_Always ==
    TRUE

\* part_001:368  the 5 ms interval goes on only once a chunk has arrived
SeesFirstChunk ==
    hasFirstChunk

\* part_001:367-407  a tick of checkFirstChunk
CheckFirstChunkTick ==
    /\ RT /\ checkFirstChunk
    /\ IF SeesFirstChunk
       THEN /\ checkFirstChunk' = FALSE
            /\ tryStartPlayback
       ELSE UNCHANGED << checkFirstChunk, bufferCheckInterval,
                         polledAfterCeiling, promiseVars >>
    /\ UNCHANGED << wsState, fn, pc, readerVars, cur, chunks, feederVars,
                    updateendQueued, isSourceOpen, hasFirstChunk,
                    detectedMimeType, addLog, aborted, elapsedOver,
                    bufferedOver, overallTimer, audioErrored, streamError,
                    streamPromise >>

\* part_001:402  a tick of bufferCheckInterval
BufferCheckTick ==
    /\ RT /\ bufferCheckInterval
    /\ tryStartPlayback
    /\ UNCHANGED << wsState, fn, pc, readerVars, cur, chunks, feederVars,
                    updateendQueued, isSourceOpen, hasFirstChunk,
                    detectedMimeType, addLog, aborted, checkFirstChunk,
                    elapsedOver, bufferedOver, overallTimer, audioErrored,
                    streamError, streamPromise >>

\* part_001:374/389  more than 1000 ms have passed since startTime
ElapsedPasses ==
    /\ RT /\ bufferCheckInterval /\ ~elapsedOver
    /\ elapsedOver' = TRUE
    /\ UNCHANGED << wsState, fn, pc, readerVars, cur, chunks, feederVars,
                    updateendQueued, isSourceOpen, hasFirstChunk,
                    detectedMimeType, addLog, aborted, checkFirstChunk,
                    bufferCheckInterval, bufferedOver, polledAfterCeiling,
                    overallTimer, audioErrored, streamError, streamPromise,
                    promiseVars >>

\* the 10000 ms timer without the check of line 412
TimeoutRejects_Always ==
    TRUE

\* part_001:412  the 10000 ms timer rejects only when no chunk has arrived
TimeoutRejects ==
    ~hasFirstChunk

\* part_001:410-415  the 10000 ms timer
OverallTimerFires ==
    /\ RT /\ overallTimer
    /\ overallTimer' = FALSE
    /\ checkFirstChunk' = FALSE
    /\ IF TimeoutRejects
       THEN Settle("rejected", "StreamTimeout")
       ELSE UNCHANGED promiseVars
    /\ UNCHANGED << wsState, fn, pc, readerVars, cur, chunks, feederVars,
                    updateendQueued, isSourceOpen, hasFirstChunk,
                    detectedMimeType, addLog, aborted, bufferCheckInterval,
                    elapsedOver, bufferedOver, polledAfterCeiling,
                    audioErrored, streamError, streamPromise >>

\* websocket.js:344-355  the 'error' listener of textToSpeechRealtime (once)
errorListener(t) ==
    IF t.errorListener
    THEN [t EXCEPT !.onError = countCall(@), !.errorListener = FALSE]
    ELSE t

\* part_001:418-421  the audio element's 'error' (once); the element fails
\* on media it was given, so an append has been accepted before.  The
\* listener of postStreamRealtime is called first, then the one of
\* textToSpeechRealtime if it has been added
AudioError ==
    /\ RT /\ ~audioErrored
    /\ \E i \in DOMAIN appendLog : appendLog[i].ok
    /\ audioErrored' = TRUE
    /\ checkFirstChunk' = FALSE
    /\ IF promiseState = "pending"
       THEN Settle("rejected", "AudioError")
       ELSE /\ UNCHANGED << promiseState, rejectReason, timeoutId >>
            /\ ttsState' = errorListener(ttsState)
    /\ UNCHANGED << wsState, fn, pc, readerVars, cur, chunks, feederVars,
                    updateendQueued, isSourceOpen, hasFirstChunk,
                    detectedMimeType, addLog, aborted, bufferCheckInterval,
                    elapsedOver, bufferedOver, polledAfterCeiling,
                    overallTimer, streamError, streamPromise >>

\* a deadline that fires without aborting the request
RequestTimerFires_NoAbort ==
    /\ timeoutId
    /\ timeoutId' = FALSE
    /\ UNCHANGED << wsState, fn, pc, readerVars, cur, chunks, feederVars,
                    updateendQueued, isSourceOpen, hasFirstChunk,
                    detectedMimeType, addLog, aborted, gateVars, bufferedOver,
                    streamError, streamPromise, promiseState, rejectReason,
                    ttsState >>

\* part_001:15-17  the request deadline fires: controller.abort()
RequestTimerFires ==
    /\ timeoutId
    /\ timeoutId' = FALSE
    /\ aborted' = TRUE
    /\ UNCHANGED << wsState, fn, pc, readerVars, cur, chunks, feederVars,
                    updateendQueued, isSourceOpen, hasFirstChunk,
                    detectedMimeType, addLog, gateVars, bufferedOver,
                    streamError, streamPromise, promiseState, rejectReason,
                    ttsState >>

\* ------------------------------------------------------------ postStream

PS ==
    fn = "postStream"

\* what postStream leaves alone: everything of the realtime session
psFrame ==
    << wsState, fn, cur, feederVars, updateendQueued, isSourceOpen,
       hasFirstChunk, detectedMimeType, addLog, aborted, gateVars,
       bufferedOver, streamPromise >>

\* the errors a pending fetch or read of postStream and fetchWithTimeout can
\* end with: the fetch or the read is pending whenever the deadline fires,
\* and controller.abort() rejects a pending fetch or read with AbortError
PS_FailureReasons(isFetch, checksStatus) ==
    IF aborted
    THEN {"AbortError"}
    ELSE {"TransportError"}
           \cup (IF isFetch /\ checksStatus
                 THEN {HttpStatusError(s) : s \in ErrorStatuses} ELSE {})

\* a failure after which the call starts again
PS_Throw_Retries(error) ==
    /\ pc' = "fetch"
    /\ UNCHANGED << readerVars, chunks, psFrame, streamError, promiseVars >>

\* part_001:177-184  catch { AbortError -> '请求超时' } finally { clearTimeout }
PS_Throw(error) ==
    /\ pc' = "failed"
    /\ streamError' = error
    /\ promiseState' = "rejected"
    /\ rejectReason' = IF error = "AbortError" THEN "Timeout" ELSE error
    /\ timeoutId' = FALSE
    /\ UNCHANGED << readerVars, chunks, psFrame, ttsState >>

\* part_001:152-163  the response arrives with a success status
PS_FetchResponds ==
    /\ PS /\ pc = "fetch" /\ ~aborted
    /\ pc' = "read"
    /\ UNCHANGED << readerVars, chunks, psFrame, streamError, promiseVars >>

\* part_001:152-161  fetch rejects, or the status is not ok
PS_FetchFails(error) ==
    /\ PS /\ pc = "fetch"
    /\ error \in PS_FailureReasons(TRUE, TRUE)
    /\ PS_Throw(error)

\* part_001:168-173  reader.read() delivers a chunk
PS_ReadChunk(len, bound) ==
    /\ PS /\ pc = "read" /\ ~aborted
    /\ nread < bound
    /\ nread' = nread + 1
    /\ chunks' = Append(chunks, nread')
    /\ totalBytes' = NextTotal(totalBytes, len)
    /\ lastReceived' = totalBytes'
    /\ sumRead' = sumRead + len
    /\ UNCHANGED << pc, psFrame, streamError, promiseVars >>

\* part_001:169/176/183  done: the Blob is returned and the timer cleared
PS_ReadDone ==
    /\ PS /\ pc = "read" /\ ~aborted
    /\ pc' = "done"
    /\ promiseState' = "resolved"
    /\ timeoutId' = FALSE
    /\ UNCHANGED << readerVars, chunks, psFrame, streamError, rejectReason,
                    ttsState >>

\* part_001:168  reader.read() rejects
PS_ReadFails(error) ==
    /\ PS /\ pc = "read"
    /\ error \in PS_FailureReasons(FALSE, TRUE)
    /\ PS_Throw(error)

\* ------------------------------------------------------------ fetchWithTimeout

FW ==
    fn = "fetchWithTimeout"

\* part_001:32-36/43  the response arrives, whatever its status: it is
\* returned and the timer cleared
FW_FetchResponds ==
    /\ FW /\ pc = "fetch" /\ ~aborted
    /\ pc' = "done"
    /\ promiseState' = "resolved"
    /\ timeoutId' = FALSE
    /\ UNCHANGED << readerVars, chunks, psFrame, streamError, rejectReason,
                    ttsState >>

\* part_001:37-44  fetch rejects; the catch and the finally are those of
\* postStream (lines 177-184)
FW_FetchFails(error) ==
    /\ FW /\ pc = "fetch"
    /\ error \in PS_FailureReasons(TRUE, FALSE)
    /\ PS_Throw(error)

\* ------------------------------------------------------------ the specifications

MimeInputs ==
    {None} \cup MimeTypes

\* One call of fetchWithTimeout, or of postStream or postStreamRealtime on a
\* body of at most MaxBody chunks, with every timer, event and input of the
\* call.  The 50 ms pause needs more than PendingLimit queued chunks, which
\* so short a body never queues: it is part of SpecFeed.
Next ==
    \/ \E ct \in MimeInputs : RT_FetchResponds(ct)
    \/ \E e \in FailureReasons(TRUE) : RT_FetchFails(e)
    \/ \E len \in ChunkLens, t \in MayThrow : RT_ReadChunk(len, t, MaxBody)
    \/ \E t \in MayThrow : RT_ReadDone(t)
    \/ \E e \in FailureReasons(FALSE) : RT_ReadFails(e)
    \/ \E rt \in MimeInputs, sup \in SUBSET MimeTypes, t \in MayThrow :
          SourceOpen(rt, sup, t)
    \/ \E g \in BOOLEAN : AppendComplete(g)
    \/ \E t \in MayThrow : UpdateEnd(t)
    \/ CheckFirstChunkTick
    \/ BufferCheckTick
    \/ ElapsedPasses
    \/ OverallTimerFires
    \/ AudioError
    \/ RequestTimerFires
    \/ PS_FetchResponds
    \/ \E e \in PS_FailureReasons(TRUE, TRUE) : PS_FetchFails(e)
    \/ \E len \in ChunkLens : PS_ReadChunk(len, MaxBody)
    \/ PS_ReadDone
    \/ \E e \in PS_FailureReasons(FALSE, TRUE) : PS_ReadFails(e)
    \/ FW_FetchResponds
    \/ \E e \in PS_FailureReasons(TRUE, FALSE) : FW_FetchFails(e)

Spec ==
    Init /\ [][Next]_vars

\* The feeder of postStreamRealtime on a body of at most MaxChunks chunks of
\* one byte: the reading task and the MediaSource events.  The response
\* names no content type and the browser accepts every type or none.  The
\* readiness gate is left out: it reads the feeder's variables and writes
\* none of them.  The request deadline is left out as well: all it does to
\* the feeder is to make the pending fetch or read fail, which the
\* transport does at any time too.
InitFeed ==
    Init /\ RT

NextFeed ==
    \/ RT_FetchResponds(None)
    \/ \E e \in FailureReasons(TRUE) : RT_FetchFails(e)
    \/ \E t \in MayThrow : RT_ReadChunk(1, t, MaxChunks)
    \/ \E t \in MayThrow : RT_ReadDone(t)
    \/ \E e \in FailureReasons(FALSE) : RT_ReadFails(e)
    \/ RT_PauseElapsed
    \/ \E sup \in {{}, MimeTypes}, t \in MayThrow : SourceOpen(None, sup, t)
    \/ AppendComplete(FALSE)
    \/ \E t \in MayThrow : UpdateEnd(t)

SpecFeed ==
    InitFeed /\ [][NextFeed]_vars

\* ------------------------------------------------------------ WebSocketManager: the dispatcher

\* The callbacks an application subscribes.  "plain" returns, "thrower"
\* throws, "quitter" unsubscribes itself from the tag it is called for,
\* "joiner" subscribes "plain" to the tag it is called for unless "plain" is
\* subscribed to it already.
Callbacks ==
    {"plain", "thrower", "quitter", "joiner"}

\* the tags the application subscribes to, where the dispatcher is studied
SubscribedTags ==
    {"answer", "message", "open"}

\* websocket.js:153  callbacks.indexOf(callback), 0 standing for -1
indexOf(list, cb) ==
    IF \E i \in DOMAIN list : list[i] = cb
    THEN CHOOSE i \in DOMAIN list :
             list[i] = cb /\ \A j \in 1..(i - 1) : list[j] # cb
    ELSE 0

\* websocket.js:155  callbacks.splice(index, 1)
splice(list, index) ==
    SubSeq(list, 1, index - 1) \o SubSeq(list, index + 1, Len(list))

\* websocket.js:144-149  on(event, callback)
on(m, event, cb) ==
    [m EXCEPT !.callbacks[event] = Append(@, cb)]

\* websocket.js:151-159  off(event, callback)
off(m, event, cb) ==
    LET index == indexOf(m.callbacks[event], cb)
    IN  IF index > 0
        THEN [m EXCEPT !.callbacks[event] = splice(@, index)]
        ELSE m

\* websocket.js:164-168  try { callback(data) } catch (error) { ... }:
\* the manager after the callback has run; what it throws is caught
callback(m, event, cb) ==
    CASE cb = "quitter" -> off(m, event, cb)
      [] cb = "joiner" /\ indexOf(m.callbacks[event], "plain") = 0 ->
             on(m, event, "plain")
      [] OTHER -> m

\* websocket.js:163  this.callbacks.get(event).forEach(...): the indices
\* k..n of the live array are visited in order, n being its length when the
\* loop began; an index the array no longer has is not visited
RECURSIVE forEach(_, _, _, _, _)
forEach(m, event, data, k, n) ==
    IF k > n
    THEN m
    ELSE IF k > Len(m.callbacks[event])
    THEN forEach(m, event, data, k + 1, n)
    ELSE LET cb == m.callbacks[event][k]
             invoked == [m EXCEPT !.called =
                            Append(@, [event |-> event, callback |-> cb,
                                       data |-> data])]
         IN  forEach(callback(invoked, event, cb), event, data, k + 1, n)

\* websocket.js:161-171  emit(event, data)
emit(m, event, data) ==
    forEach([m EXCEPT !.published = Append(@, [event |-> event,
                                                data |-> data])],
            event, data, 1, Len(m.callbacks[event]))

\* ------------------------------------------------------------ WebSocketManager: the connection

\* the variables of the HTTP helpers, which the manager never touches
streamVars ==
    << fn, pc, readerVars, cur, chunks, feederVars, updateendQueued,
       isSourceOpen, hasFirstChunk, detectedMimeType, addLog, aborted,
       gateVars, bufferedOver, streamError, streamPromise, promiseVars >>

\* the manager as a task finds it: nothing published, called, sent or
\* returned yet
Begin ==
    [wsState EXCEPT !.published = << >>, !.called = << >>,
                    !.sent = << >>, !.callResult = None]

\* one task of the event loop that leaves the manager as m
Task(m) ==
    /\ wsState' = m
    /\ UNCHANGED streamVars

\* websocket.js:30  new WebSocket(this.url), with the promise connect() returns
WebSocket(u) ==
    [readyState |-> "CONNECTING", url |-> u, promise |-> "pending"]

\* the transports that are connecting or open
Live ==
    {t \in DOMAIN sockets : sockets[t].readyState \in {"CONNECTING", "OPEN"}}

\* websocket.js:173-175  isConnected()
isConnected ==
    ws # 0 /\ sockets[ws].readyState = "OPEN"

\* a connect() that never takes the transport for open
AlreadyConnected_Never(m) ==
    FALSE

\* websocket.js:20  if (this.ws && this.ws.readyState === WebSocket.OPEN)
AlreadyConnected(m) ==
    m.ws # 0 /\ m.sockets[m.ws].readyState = "OPEN"

\* websocket.js:19-64  connect(path), up to the point where it returns the
\* promise; the handlers it installs are onopen, onerror and onclose below
connect(m, path) ==
    IF AlreadyConnected(m)
    THEN m
    ELSE [m EXCEPT !.url = path,
                   !.isManualClose = FALSE,
                   !.sockets = Append(@, WebSocket(path)),
                   !.ws = Len(m.sockets) + 1]

\* connect() constructs no transport beyond the bound
Room(bound) ==
    AlreadyConnected(wsState) \/ Len(sockets) < bound

\* websocket.js:19  connect(path) called by the application
CallConnect(path, bound) ==
    /\ Room(bound)
    /\ Task([connect(Begin, path) EXCEPT
                !.callResult = IF AlreadyConnected(wsState)
                               THEN "resolved" ELSE "pending"])

\* the id setTimeout or setInterval returns: one that no armed timer has and
\* no handle of the manager holds
NewTimer(m) ==
    CHOOSE n \in 1..(Cardinality(m.heartbeats \cup m.reconnectTimers) + 3) :
        /\ n \notin {m.heartbeatTimer, m.reconnectTimer}
        /\ \A x \in m.heartbeats \cup m.reconnectTimers : x.id # n
        /\ \A k \in 1..(n - 1) :
               \/ k \in {m.heartbeatTimer, m.reconnectTimer}
               \/ \E x \in m.heartbeats \cup m.reconnectTimers : x.id = k

\* websocket.js:95-106  startHeartbeat()
startHeartbeat(m) ==
    IF ~heartbeat
    THEN m
    ELSE [m EXCEPT !.heartbeatTimer = NewTimer(m),
                   !.heartbeats = @ \cup {[id |-> NewTimer(m),
                                           period |-> heartbeatInterval]}]

\* websocket.js:108-113  stopHeartbeat()
stopHeartbeat(m) ==
    IF m.heartbeatTimer # 0
    THEN [m EXCEPT !.heartbeats = {h \in @ : h.id # m.heartbeatTimer},
                   !.heartbeatTimer = 0]
    ELSE m

\* websocket.js:32-38  ws.onopen of transport t
onopen(m, t) ==
    LET reset == [m EXCEPT !.reconnectCount = 0,
                           !.unexpectedCloses = 0,
                           !.scheduled = 0]
        opened == emit(startHeartbeat(reset), "open", None)
    IN  [opened EXCEPT !.sockets[t].promise = "resolved"]

\* a transport that was connecting opens
SocketOpens(t) ==
    /\ t \in DOMAIN sockets
    /\ sockets[t].readyState = "CONNECTING"
    /\ Task(onopen([Begin EXCEPT !.sockets[t].readyState = "OPEN"], t))

\* websocket.js:115-128  attemptReconnect()
attemptReconnect(m) ==
    IF m.reconnectCount >= reconnectAttempts
    THEN emit(m, "reconnectFailed", None)
    ELSE [m EXCEPT !.reconnectCount = @ + 1,
                   !.scheduled = @ + 1,
                   !.reconnectTimer = NewTimer(m),
                   !.reconnectTimers = @ \cup {[id |-> NewTimer(m),
                                                delay |-> reconnectInterval]}]

\* the test of line 55 without isManualClose
ReconnectWanted_Always(m) ==
    autoReconnect

\* websocket.js:55  if (!this.isManualClose && WS_OPTIONS.autoReconnect)
ReconnectWanted(m) ==
    ~m.isManualClose /\ autoReconnect

\* a failure that leaves the promise as it is
onerror_NoReject(m, t) ==
    emit(m, "error", "event")

\* websocket.js:44-48  ws.onerror of transport t; reject() settles the
\* promise only if it is still pending
onerror(m, t) ==
    [emit(m, "error", "event") EXCEPT
        !.sockets[t].promise = IF @ = "pending" THEN "rejected" ELSE @]

\* websocket.js:50-58  ws.onclose
onclose(m) ==
    LET closed == emit(stopHeartbeat(m), "close", None)
        counted == [closed EXCEPT !.unexpectedCloses =
                       IF closed.isManualClose THEN @ ELSE @ + 1]
    IN  IF ReconnectWanted(counted)
        THEN attemptReconnect(counted)
        ELSE counted

\* a transport closes: the browser fires 'error' (when the transport failed)
\* and 'close' in one task; a transport that never opened closes only by
\* failing
SocketCloses(t, failed) ==
    /\ t \in DOMAIN sockets
    /\ sockets[t].readyState # "CLOSED"
    /\ sockets[t].promise = "pending" => failed
    /\ LET gone == [Begin EXCEPT !.sockets[t].readyState = "CLOSED"]
       IN  Task(onclose(IF failed THEN onerror(gone, t) ELSE gone))

\* websocket.js:125-127  the callback of the reconnect timer: this.connect()
ReconnectTimerFires(r, bound) ==
    /\ r \in reconnectTimers
    /\ Room(bound)
    /\ Task(connect([Begin EXCEPT !.reconnectTimers = @ \ {r}], WS_PATH))

\* websocket.js:87  typeof message === 'string' ? message : JSON.stringify(message)
Serialize(message) ==
    IF message.isString
    THEN [json |-> FALSE, type |-> None, timestamp |-> FALSE,
          text |-> message.text]
    ELSE [json |-> TRUE, type |-> message.type,
          timestamp |-> message.timestamp, text |-> None]

\* the test of line 82 without the readyState
NotConnected_NoTransportOnly(m) ==
    m.ws = 0

\* websocket.js:82  if (!this.ws || this.ws.readyState !== WebSocket.OPEN)
NotConnected(m) ==
    m.ws = 0 \/ m.sockets[m.ws].readyState # "OPEN"

\* websocket.js:81-93  send(message): callResult tells whether it threw
send(m, message) ==
    IF NotConnected(m)
    THEN [m EXCEPT !.callResult = "NotConnected"]
    ELSE [m EXCEPT !.sent = Append(@, [socket |-> m.ws,
                                       readyState |-> m.sockets[m.ws].readyState,
                                       data |-> Serialize(message)]),
                   !.callResult = "sent"]

\* the messages the application sends: one string, one object
Messages ==
    { [isString |-> TRUE, text |-> "hello", type |-> None,
       timestamp |-> FALSE],
      [isString |-> FALSE, text |-> None, type |-> "question",
       timestamp |-> FALSE] }

\* websocket.js:81  send(message) called by the application
CallSend(message) ==
    Task(send(Begin, message))

\* part_000:38  PING: 'ping';  websocket.js:100-103  the heartbeat message
Ping ==
    [isString |-> FALSE, text |-> None, type |-> "ping", timestamp |-> TRUE]

\* an interval callback that never sends
TickSends_Never(m) ==
    FALSE

\* websocket.js:99  if (this.ws && this.ws.readyState === WebSocket.OPEN)
TickSends(m) ==
    m.ws # 0 /\ m.sockets[m.ws].readyState = "OPEN"

\* websocket.js:98-105  one tick of a heartbeat interval; the tick is no
\* call of the application
HeartbeatTick(h) ==
    /\ h \in heartbeats
    /\ Task(IF TickSends(Begin)
            THEN [send(Begin, Ping) EXCEPT !.callResult = None]
            ELSE Begin)

\* a close() that takes the latest retry back
CountAfterClose_TakesBack(m) ==
    IF m.reconnectCount > 0 THEN m.reconnectCount - 1 ELSE m.reconnectCount

\* websocket.js:130-142  close() assigns nothing to this.reconnectCount
CountAfterClose(m) ==
    m.reconnectCount

\* websocket.js:130-142  close(); clearTimeout leaves the handle as it is,
\* ws.close() takes a connecting or open transport to CLOSING
close(m) ==
    LET manual == [m EXCEPT !.isManualClose = TRUE,
                            !.reconnectCount = CountAfterClose(m)]
        stopped == stopHeartbeat(manual)
        cleared == IF stopped.reconnectTimer # 0
                   THEN [stopped EXCEPT !.reconnectTimers =
                            {r \in @ : r.id # stopped.reconnectTimer}]
                   ELSE stopped
    IN  IF cleared.ws # 0
        THEN [cleared EXCEPT
                 !.sockets[cleared.ws].readyState =
                     IF @ \in {"CONNECTING", "OPEN"} THEN "CLOSING" ELSE @,
                 !.ws = 0]
        ELSE cleared

\* websocket.js:130  close() called by the application
CallClose ==
    Task([close(Begin) EXCEPT !.callResult = "closed"])

\* the payloads a transport delivers: text that is not JSON, the JSON text
\* null, JSON objects with and without a type tag, and binary data
Payloads ==
    { [isString |-> TRUE, json |-> "invalid", type |-> None],
      [isString |-> TRUE, json |-> "null", type |-> None],
      [isString |-> TRUE, json |-> "object", type |-> "answer"],
      [isString |-> TRUE, json |-> "object", type |-> "open"],
      [isString |-> TRUE, json |-> "object", type |-> None],
      [isString |-> FALSE, json |-> "binary", type |-> None] }

\* websocket.js:68  JSON.parse(data) throws
ParseThrows(data) ==
    data.isString /\ data.json = "invalid"

\* websocket.js:70  reading message.type throws: the message is null
TypeThrows(data) ==
    data.isString /\ data.json = "null"

\* websocket.js:66-79  handleMessage(data)
handleMessage(m, data) ==
    IF ParseThrows(data) \/ TypeThrows(data)
    THEN emit(m, "error", "parse")
    ELSE IF data.type # None
    THEN emit(emit(m, data.type, "data"), "message", "envelope")
    ELSE emit(m, "message", "envelope")

\* websocket.js:40-42  ws.onmessage of transport t
SocketMessage(t, data) ==
    /\ t \in DOMAIN sockets
    /\ sockets[t].readyState = "OPEN"
    /\ Task(handleMessage(Begin, data))

\* subscriptions the registry holds
Subscriptions ==
    LET RECURSIVE Sum(_)
        Sum(S) == IF S = {} THEN 0
                  ELSE LET t == CHOOSE x \in S : TRUE
                       IN  Len(callbacks[t]) + Sum(S \ {t})
    IN  Sum(Tags)

\* websocket.js:144  on(event, callback) called by the application
CallOn(event, cb) ==
    /\ Subscriptions < MaxSubs
    /\ Task(on(Begin, event, cb))

\* websocket.js:151  off(event, callback) called by the application
CallOff(event, cb) ==
    Task(off(Begin, event, cb))

\* ------------------------------------------------------------ WebSocketManager: specifications

\* The connection: the application calls connect, close and send, the
\* transports open, fail and close, the timers fire.  Nobody is subscribed,
\* and no call of the HTTP helpers is under way.
InitWS ==
    /\ InitHttp
    /\ fn = "postStream"
    /\ wsState = constructor

NextWS ==
    \/ \E path \in Paths : CallConnect(path, MaxSockets)
    \/ CallClose
    \/ \E m \in Messages : CallSend(m)
    \/ \E t \in DOMAIN sockets : SocketOpens(t)
    \/ \E t \in DOMAIN sockets, failed \in BOOLEAN : SocketCloses(t, failed)
    \/ \E r \in reconnectTimers : ReconnectTimerFires(r, MaxSockets)
    \/ \E h \in heartbeats : HeartbeatTick(h)

SpecWS ==
    InitWS /\ [][NextWS]_vars

\* The retries: the endpoint never accepts a connection, so that every
\* transport fails, up to one transport more than the retries allow.
ChainLength ==
    reconnectAttempts + 1

NextRetry ==
    \/ CallConnect(WS_PATH, ChainLength)
    \/ CallClose
    \/ \E t \in DOMAIN sockets, failed \in BOOLEAN : SocketCloses(t, failed)
    \/ \E r \in reconnectTimers : ReconnectTimerFires(r, ChainLength)

SpecRetry ==
    InitWS /\ [][NextRetry]_vars

\* The dispatcher: the application subscribes and unsubscribes, one
\* transport opens, delivers messages and closes.
NextBus ==
    \/ \E event \in SubscribedTags, cb \in Callbacks : CallOn(event, cb)
    \/ \E event \in SubscribedTags, cb \in Callbacks : CallOff(event, cb)
    \/ CallConnect(WS_PATH, 1)
    \/ \E t \in DOMAIN sockets : SocketOpens(t)
    \/ \E t \in DOMAIN sockets, data \in Payloads : SocketMessage(t, data)
    \/ \E t \in DOMAIN sockets, failed \in BOOLEAN : SocketCloses(t, failed)

SpecBus ==
    InitWS /\ [][NextBus]_vars

\* ------------------------------------------------------------ textToSpeechRealtime

\* 'ended' events the audio element fires at most: the holder of the
\* returned element may play it again
MaxPlays ==
    2

\* the calls of options.onStart, onComplete and onError so far
onStart ==
    ttsState.onStart

onComplete ==
    ttsState.onComplete

onError ==
    ttsState.onError

\* what the HTTP helper leaves alone when it is called
callFrame ==
    << wsState, pc, readerVars, cur, chunks, feederVars, updateendQueued,
       isSourceOpen, hasFirstChunk, detectedMimeType, addLog, aborted,
       bufferCheckInterval, elapsedOver, bufferedOver, polledAfterCeiling,
       audioErrored, streamError, streamPromise, promiseState, rejectReason >>

\* websocket.js:307-330  the synchronous part of the call: onStart() at line
\* 315 and again at line 322, then postStreamRealtime(...) up to the
\* promise it returns (part_001:196-211, 365-415: the deadline, the 5 ms
\* interval and the 10000 ms timer are armed)
TTS_Start ==
    /\ ttsState.stage = "called"
    /\ ttsState' = [ttsState EXCEPT !.onStart = countCall(countCall(@)),
                                    !.stage = "awaitStream"]
    /\ fn' = "postStreamRealtime"
    /\ timeoutId' = TRUE
    /\ checkFirstChunk' = TRUE
    /\ overallTimer' = TRUE
    /\ UNCHANGED callFrame

\* what the steps of the audio element leave alone
playFrame ==
    << wsState, fn, pc, readerVars, cur, chunks, feederVars, updateendQueued,
       isSourceOpen, hasFirstChunk, detectedMimeType, addLog, aborted,
       gateVars, bufferedOver, streamError, streamPromise, promiseState,
       rejectReason, timeoutId >>

\* websocket.js:332-356  audio.play() resolves: the 'ended' and 'error'
\* listeners are added and the call returns { audio, mediaSource }
TTS_PlayResolves ==
    /\ ttsState.stage = "awaitPlay"
    /\ ttsState' = [ttsState EXCEPT !.endedListener = TRUE,
                                    !.errorListener = TRUE,
                                    !.stage = "returned",
                                    !.result = "resolved"]
    /\ UNCHANGED playFrame

\* websocket.js:332/357-366  audio.play() rejects (autoplay policy, or the
\* element cannot play the source)
TTS_PlayRejects ==
    /\ ttsState.stage = "awaitPlay"
    /\ ttsState' = innerCatch(ttsState)
    /\ UNCHANGED playFrame

\* websocket.js:343  { once: true }
EndedListenerAfter(t) ==
    FALSE

\* websocket.js:333-343  the 'ended' listener of textToSpeechRealtime
endedListener(t) ==
    IF t.endedListener
    THEN [t EXCEPT !.onComplete = countCall(@),
                   !.endedListener = EndedListenerAfter(t)]
    ELSE t

\* the audio element fires 'ended': playback has begun and has reached the
\* end of a media source that is marked as ended (before endOfStream the
\* element waits for more data at the end of what is buffered)
AudioEnded ==
    /\ ttsState.stage = "returned" /\ ttsState.result = "resolved"
    /\ readyState = "ended"
    /\ ~audioErrored
    /\ ttsState.endedEvents < MaxPlays
    /\ ttsState' = endedListener([ttsState EXCEPT !.endedEvents = @ + 1])
    /\ UNCHANGED playFrame

\* One call of textToSpeechRealtime, which passes responseType 'audio/mpeg'
\* (websocket.js:329), on a body of at most MaxBody chunks of one byte.  The
\* module that defines it exports the WebSocketManager, on which nothing is
\* called.
InitTTS ==
    /\ Called(None, FALSE)
    /\ wsState = constructor
    /\ ttsState = textToSpeechRealtime

NextTTS ==
    \/ TTS_Start
    \/ \E ct \in MimeInputs : RT_FetchResponds(ct)
    \/ \E e \in FailureReasons(TRUE) : RT_FetchFails(e)
    \/ \E t \in MayThrow : RT_ReadChunk(1, t, MaxBody)
    \/ \E t \in MayThrow : RT_ReadDone(t)
    \/ \E e \in FailureReasons(FALSE) : RT_ReadFails(e)
    \/ \E sup \in SUBSET MimeTypes, t \in MayThrow :
          SourceOpen("audio/mpeg", sup, t)
    \/ \E g \in BOOLEAN : AppendComplete(g)
    \/ \E t \in MayThrow : UpdateEnd(t)
    \/ CheckFirstChunkTick
    \/ BufferCheckTick
    \/ ElapsedPasses
    \/ OverallTimerFires
    \/ AudioError
    \/ RequestTimerFires
    \/ TTS_PlayResolves
    \/ TTS_PlayRejects
    \/ AudioEnded

SpecTTS ==
    InitTTS /\ [][NextTTS]_vars

\* ------------------------------------------------------------ claims

\* C1: appendBuffer is never invoked while a previous submission is still
\* outstanding: sourceBuffer.updating is false at every call, on the direct
\* path of the read loop and in flushPendingChunks.
C1_NeverAppendsWhileUpdating ==
    \A i \in DOMAIN appendLog : ~appendLog[i].busy

\* C1 witness: a submission is outstanding, chunks that arrived meanwhile
\* wait in pendingChunks, and an earlier completion has already been drained.
C1_ChunksQueuedBehindSubmission ==
    /\ updating
    /\ Len(pendingChunks) >= 2
    /\ Len(appendLog) >= 3

\* C2: chunks are passed to appendBuffer in arrival order: no chunk is
\* passed after a chunk that arrived later than it.
C2_SubmittedInArrivalOrder ==
    \A i, j \in DOMAIN appendLog :
        i < j => appendLog[i].chunk <= appendLog[j].chunk

\* C3: endOfStream is called at most once, and only with streamEnded set,
\* pendingChunks empty and the writer not updating.
C3_EndOfStreamOnceWhenDrained ==
    /\ Len(eosLog) <= 1
    /\ \A i \in DOMAIN eosLog :
          /\ eosLog[i].streamEnded
          /\ eosLog[i].pending = 0
          /\ ~eosLog[i].updating

\* C3 witness: the container was finalized after chunks had gone through
\* pendingChunks and the writer.
C3_FinalizedAfterDrain ==
    /\ Len(eosLog) = 1
    /\ readyState = "ended"
    /\ nread >= 3
    /\ Cardinality({i \in DOMAIN appendLog : appendLog[i].ok}) >= 3

\* C4: once the source has ended, pendingChunks is empty and the writer,
\* which has accepted media, is idle with no completion notification still
\* to come, the container has been finalized (nothing later would do it).
C4_EndedAndDrainedIsFinalized ==
    ( /\ streamEnded
      /\ isSourceOpen
      /\ sourceBuffer # None
      /\ \E i \in DOMAIN appendLog : appendLog[i].ok
      /\ Len(pendingChunks) = 0
      /\ ~updating
      /\ updateendQueued = 0 )
    => readyState = "ended"

\* C5: the received-bytes values passed to successive onChunk calls never
\* decrease, and the latest one is the sum of the lengths of the chunks read.
C5_ReceivedBytesRunningSum ==
    /\ [](nread > 0 => lastReceived = sumRead)
    /\ [][lastReceived' >= lastReceived]_vars

\* C5 witness: several chunks of different lengths have been reported.
C5_SeveralChunksReported ==
    /\ nread >= 2
    /\ sumRead > nread
    /\ sumRead < 2 * nread

\* C6: whenever a read step ends with more than PendingLimit chunks in
\* pendingChunks, the loop pauses before the next reader.read(), whether or
\* not the writer exists.
C6_PausesWheneverOverLimit ==
    [][ ( /\ \/ nread' = nread + 1 /\ pc' # "awaitOpen"
             \/ pc = "awaitOpen" /\ pc' # "awaitOpen"
          /\ Len(pendingChunks') > PendingLimit )
        => pc' = "pause" ]_vars

\* C7: the promise returned by postStreamRealtime is resolved only in states
\* where the first chunk has arrived.
C7_ResolvedOnlyAfterFirstChunk ==
    (RT /\ promiseState = "resolved") => hasFirstChunk

\* C7 witness: the promise of postStreamRealtime has resolved.
C7_RealtimeResolved ==
    RT /\ promiseState = "resolved" /\ ~bufferCheckInterval

\* C8: once a readiness poll has run after the elapsed-time ceiling (the
\* MediaSource being open and the audio element having raised no error),
\* the promise is resolved.
C8_ResolvedAtFirstPollAfterCeiling ==
    (polledAfterCeiling /\ ~audioErrored) => promiseState = "resolved"

\* C9: when the 10000 ms timer fires, the promise is rejected with the
\* stream-timeout error if no chunk has arrived, and is left as it was if a
\* chunk has arrived.
C9_OverallTimerRejectsOnlyWithoutChunk ==
    [][ (overallTimer /\ ~overallTimer')
        => IF hasFirstChunk
           THEN promiseState' = promiseState /\ rejectReason' = rejectReason
           ELSE promiseState' = "rejected" /\ rejectReason' = "StreamTimeout"
      ]_vars

\* C9 witness: the timer has fired with no chunk and rejected the promise.
C9_RejectedWithStreamTimeout ==
    /\ ~overallTimer
    /\ ~hasFirstChunk
    /\ promiseState = "rejected"
    /\ rejectReason = "StreamTimeout"

\* C10: when the request has failed before any chunk arrived, the promise
\* settles rejected with the failure of the stream task.
C10_EarlyFailureRejectsWithIt ==
    (RT /\ pc = "failed" /\ ~hasFirstChunk /\ promiseState # "pending")
    => (promiseState = "rejected" /\ rejectReason = streamError)

\* C11: with auto-reconnect enabled, after N consecutive unexpected closes
\* with no successful open in between, N at most reconnectAttempts, exactly
\* N reconnect attempts have been scheduled, each reconnectInterval after
\* its close; the close after that publishes 'reconnectFailed', schedules no
\* reconnect and leaves no heartbeat timer and no reconnect timer pending.
C11_RetriesThenGivesUpWithNoTimer ==
    /\ [](/\ unexpectedCloses <= reconnectAttempts
             => scheduled = unexpectedCloses
          /\ \A r \in reconnectTimers : r.delay = reconnectInterval)
    /\ [][(unexpectedCloses = reconnectAttempts
           /\ unexpectedCloses' = reconnectAttempts + 1)
          => /\ \E i \in DOMAIN published' :
                    published'[i].event = "reconnectFailed"
             /\ scheduled' = scheduled
             /\ reconnectTimers' = {}
             /\ heartbeats' = {}]_vars

\* C12: after close() has been called and as long as connect() has not been
\* called again (isManualClose stays set, and the manager holds no
\* transport), a close event delivered by a transport does not run
\* attemptReconnect: reconnectCount is unchanged, no reconnect timer is
\* armed and 'reconnectFailed' is not published.
C12_NoReconnectAfterManualClose ==
    /\ [](isManualClose => ws = 0)
    /\ [][(/\ isManualClose
           /\ \E t \in DOMAIN sockets :
                  /\ sockets[t].readyState # "CLOSED"
                  /\ sockets'[t].readyState = "CLOSED")
          => /\ isManualClose'
             /\ reconnectCount' = reconnectCount
             /\ scheduled' = scheduled
             /\ reconnectTimers' \subseteq reconnectTimers
             /\ \A i \in DOMAIN published' :
                    published'[i].event # "reconnectFailed"]_vars

\* C12 witness: a transport has delivered its close event after close()
C12_CloseEventAfterManualClose ==
    /\ isManualClose
    /\ \E i \in DOMAIN published : published[i].event = "close"
    /\ \E t \in DOMAIN sockets : sockets[t].readyState = "CLOSED"

\* C13: in every reachable state at most one WebSocket object created by
\* the manager is live (connecting or open).
C13_AtMostOneLiveTransport ==
    Cardinality(Live) <= 1

\* C14: a connect() call made while the transport of a previous connect()
\* is still connecting does not create a second transport.
C14_ConnectWhileConnectingCreatesNothing ==
    [][(ws # 0 /\ sockets[ws].readyState = "CONNECTING")
       => Len(sockets') = Len(sockets)]_vars

\* C15: in every reachable state a heartbeat interval that was started and
\* not cleared exists if and only if the connection is open; no interval
\* is active without the manager holding its handle.
C15_HeartbeatIffOpen ==
    /\ (heartbeats # {}) <=> isConnected
    /\ \A h \in heartbeats : h.id = heartbeatTimer

\* C16: reconnectCount is set to zero only by a successful open of a
\* transport; no other step (connect, close, send, a message, an error or
\* close event, the scheduling of a reconnect) decreases it.
C16_CountResetOnlyByOpen ==
    [][reconnectCount' < reconnectCount
       => /\ reconnectCount' = 0
          /\ \E t \in DOMAIN sockets :
                 /\ sockets[t].readyState = "CONNECTING"
                 /\ sockets'[t].readyState = "OPEN"]_vars

\* C16 witness: a transport has opened after a reconnect had been scheduled,
\* and the count is back at zero
C16_CountResetByOpenAfterRetry ==
    /\ reconnectCount = 0
    /\ reconnectTimer # 0
    /\ \E i \in DOMAIN published : published[i].event = "open"

C18_SendFailsUnlessOpen ==
    [][((\E m \in Messages : CallSend(m))
        /\ (ws = 0 \/ sockets[ws].readyState
                          \in {"CONNECTING", "CLOSING", "CLOSED"}))
       => /\ callResult' = "NotConnected"
          /\ sent' = << >>
          /\ UNCHANGED << ws, sockets, url, reconnectTimer, heartbeatTimer,
                          reconnectTimers, heartbeats, reconnectCount,
                          isManualClose, callbacks >>]_vars

\* C18 witness: send has failed while the manager held a transport that
\* was not open
C18_SendRefusedOnTransportNotOpen ==
    /\ callResult = "NotConnected"
    /\ ws # 0
    /\ sockets[ws].readyState # "OPEN"

\* C19: an inbound payload that parses and carries a type tag publishes
\* that tag with the payload's data field and then 'message' with the full
\* envelope, the subscribers of the tag being called before those of
\* 'message'; a payload that parses and has no type tag publishes only
\* 'message'; a payload that fails to parse publishes only 'error'; the
\* transports and the connection state are unchanged in every case.
C19_InboundMessagePublishes ==
    [][\A t \in DOMAIN sockets, d \in Payloads :
          SocketMessage(t, d)
          => /\ published' =
                   IF d.isString /\ d.json = "invalid"
                   THEN << [event |-> "error", data |-> "parse"] >>
                   ELSE IF d.type # None
                   THEN << [event |-> d.type, data |-> "data"],
                           [event |-> "message", data |-> "envelope"] >>
                   ELSE << [event |-> "message", data |-> "envelope"] >>
             /\ \A i \in DOMAIN called' :
                    /\ called'[i].event = "message"
                       => called'[i].data = "envelope"
                    /\ called'[i].event = "answer"
                       => /\ called'[i].data = "data"
                          /\ \A j \in 1..(i - 1) :
                                 called'[j].event = "answer"
             /\ UNCHANGED << ws, sockets, url, reconnectTimer,
                             heartbeatTimer, reconnectTimers, heartbeats,
                             reconnectCount, isManualClose >>]_vars

\* C20: a publish invokes every callback that was subscribed to the tag
\* when the publish began, exactly once and in registration order, also
\* when a callback throws, subscribes or unsubscribes during the publish.
C20_PublishCallsEverySubscriberOnce ==
    [][Len(published') = 1
       => [i \in 1..Len(called') |-> called'[i].callback]
              = callbacks[published'[1].event]]_vars

\* C21: when a transport opens, reconnectCount is reset to 0, a heartbeat
\* interval is started and held, 'open' is published and the promise of
\* its connect() resolves; when a transport closes without having opened,
\* 'error' is published and its promise is rejected, so that no closed
\* transport leaves its promise pending.
C21_OpenResolvesFailureRejects ==
    /\ [][\A t \in DOMAIN sockets :
             (sockets[t].readyState = "CONNECTING"
              /\ sockets'[t].readyState = "OPEN")
             => /\ reconnectCount' = 0
                /\ \E h \in heartbeats' \ heartbeats : h.id = heartbeatTimer'
                /\ \E i \in DOMAIN published' : published'[i].event = "open"
                /\ sockets'[t].promise = "resolved"]_vars
    /\ [][\A t \in DOMAIN sockets :
             (sockets[t].promise = "pending"
              /\ sockets'[t].readyState = "CLOSED")
             => /\ \E i \in DOMAIN published' : published'[i].event = "error"
                /\ sockets'[t].promise = "rejected"]_vars
    /\ [](\A t \in DOMAIN sockets :
             sockets[t].readyState = "CLOSED" => sockets[t].promise # "pending")

\* C21 witness: one connect() has resolved, and a later one has just been
\* rejected by a transport that failed to open
C21_OneResolvedOneRejected ==
    /\ \E t \in DOMAIN sockets : sockets[t].promise = "resolved"
    /\ \E t \in DOMAIN sockets :
           sockets[t].promise = "rejected" /\ sockets[t].readyState = "CLOSED"
    /\ \E i \in DOMAIN published : published[i].event = "error"

\* C22: connect(path) called while the transport is open resolves at once
\* and changes nothing: no transport is created, and url, isManualClose,
\* reconnectCount, the timers and the subscriber lists are as before.
C22_ConnectWhileOpenIsNoOp ==
    [][((\E path \in Paths : CallConnect(path, MaxSockets)) /\ isConnected)
       => /\ callResult' = "resolved"
          /\ UNCHANGED << ws, sockets, url, isManualClose, reconnectCount,
                          reconnectTimer, heartbeatTimer, reconnectTimers,
                          heartbeats, callbacks >>]_vars

\* C22 witness: connect() has returned a resolved promise, the transport
\* being open
C22_ConnectReturnedResolved ==
    /\ callResult = "resolved"
    /\ isConnected
    /\ Len(sockets) = 1

\* C23: when close() returns, isManualClose is set, no heartbeat interval is
\* active, no reconnect timer is armed (none can fire connect() later), and
\* the transport the manager held is closing or closed and released; a
\* connect() called after that clears the flag and constructs a transport.
C23_CloseStopsEverything ==
    /\ [][CallClose
          => /\ isManualClose'
             /\ heartbeats' = {}
             /\ reconnectTimers' = {}
             /\ ws' = 0
             /\ ws # 0 => sockets'[ws].readyState \in {"CLOSING", "CLOSED"}]_vars
    /\ [][(isManualClose /\ \E path \in Paths : CallConnect(path, MaxSockets))
          => /\ ~isManualClose'
             /\ Len(sockets') = Len(sockets) + 1
             /\ ws' = Len(sockets')
             /\ sockets'[ws'].readyState = "CONNECTING"]_vars

\* C30: the transport a reconnect timer constructs is opened on the url of
\* the connection that was lost, whatever path connect() had been given.
C30_ReconnectTargetsSameAddress ==
    [][((\E r \in reconnectTimers : ReconnectTimerFires(r, MaxSockets))
        /\ Len(sockets') > Len(sockets))
       => sockets'[Len(sockets')].url = url]_vars

\* C25: postStream fails with the HTTP-status error that carries the status
\* code when the response is not ok, no chunk having been read and onChunk
\* not having been called; otherwise every chunk read is pushed and reported
\* to onChunk once, in arrival order, within the step that read it and
\* before the next read; a failed fetch or read rejects the call with that
\* failure and nothing is read afterwards.
C25_StatusErrorOrChunkByChunk ==
    /\ [](\A s1, s2 \in ErrorStatuses :
             s1 # s2 => HttpStatusError(s1) # HttpStatusError(s2))
    /\ [][\A s \in ErrorStatuses :
             PS_FetchFails(HttpStatusError(s))
             => /\ promiseState' = "rejected"
                /\ rejectReason' = HttpStatusError(s)
                /\ nread' = 0 /\ chunks' = << >> /\ lastReceived' = 0]_vars
    /\ [][(PS /\ nread' # nread)
          => /\ nread' = nread + 1
             /\ chunks' = Append(chunks, nread')
             /\ lastReceived' = sumRead'
             /\ lastReceived' > lastReceived
             /\ pc' = "read"]_vars
    /\ [][(PS /\ pc' # pc /\ pc' \notin {"read", "done"})
          => /\ pc' = "failed"
             /\ promiseState' = "rejected"
             /\ rejectReason' = IF aborted THEN "Timeout" ELSE streamError'
             /\ streamError' # None]_vars
    /\ [][(PS /\ pc = "failed")
          => UNCHANGED << pc, nread, chunks, lastReceived, promiseState,
                          rejectReason >>]_vars

\* C25 witness: a read has failed after two chunks had been reported, and
\* the call is rejected with that failure
C25_ReadFailedAfterChunks ==
    /\ PS /\ pc = "failed"
    /\ nread = 2 /\ chunks = << 1, 2 >>
    /\ promiseState = "rejected" /\ rejectReason = "TransportError"

\* C26: in fetchWithTimeout and postStream the deadline, when it fires
\* before the call has returned, aborts the request: nothing is received
\* after that and the call fails with the timeout error; once the call has
\* returned, resolved or rejected, the deadline timer is no longer armed
\* and never fires.
C26_DeadlineAbortsAndIsCleared ==
    /\ [][((PS \/ FW) /\ timeoutId /\ ~timeoutId' /\ promiseState' = "pending")
          => aborted']_vars
    /\ [][((PS \/ FW) /\ aborted)
          => /\ nread' = nread
             /\ promiseState' # "resolved"]_vars
    /\ []((PS \/ FW) /\ aborted /\ promiseState # "pending"
          => promiseState = "rejected" /\ rejectReason = "Timeout")
    /\ []((PS \/ FW) /\ promiseState # "pending" => ~timeoutId)
    /\ [][((PS \/ FW) /\ promiseState # "pending") => aborted' = aborted]_vars

\* C26 witness: the deadline has fired during the read loop of postStream
\* and the call has failed with the timeout error
C26_TimedOutWhileReading ==
    /\ PS /\ aborted /\ nread >= 1
    /\ promiseState = "rejected" /\ rejectReason = "Timeout"
    /\ ~timeoutId

\* C27: when addSourceBuffer fails for the chosen type, detected or
\* configured, and that type is not the fallback, it is called once more
\* with 'audio/mpeg', and never a third time; as long as there is no
\* writer, a failed creation does not end the stream, every chunk that
\* arrives is appended to pendingChunks and appendBuffer is never called.
C27_CreationRetriedOnceWithFallback ==
    /\ []((/\ Len(addLog) >= 1
           /\ ~addLog[1].ok
           /\ addLog[1].type # "audio/mpeg")
          => /\ Len(addLog) = 2
             /\ addLog[2].type = "audio/mpeg")
    /\ [](Len(addLog) <= 2)
    /\ []((isSourceOpen /\ sourceBuffer = None) => appendLog = << >>)
    /\ [][(isSourceOpen /\ sourceBuffer = None /\ nread' = nread + 1)
          => /\ pendingChunks' = Append(pendingChunks, nread')
             /\ pc' = "read" /\ ~streamEnded']_vars

\* C28: a chunk whose appendBuffer call threw is never passed to
\* appendBuffer again, on the direct path and in flushPendingChunks, and
\* the chunks that arrive after it are still submitted.
C28_FailedChunkNeverResubmitted ==
    \A i, j \in DOMAIN appendLog :
        (i < j /\ ~appendLog[i].ok) => appendLog[j].chunk # appendLog[i].chunk

\* C29: once streamEnded is set, no chunk is read, the reading task stays
\* where it ended and pendingChunks only loses chunks from its head.
C29_NothingReadAfterStreamEnded ==
    [][streamEnded
       => /\ nread' = nread
          /\ pc' = pc /\ pc \in {"done", "failed"}
          /\ streamEnded'
          /\ \E k \in 0..Len(pendingChunks) :
                 pendingChunks' = SubSeq(pendingChunks, k + 1,
                                         Len(pendingChunks))]_vars

\* C29 witness: the read has failed with chunks still in pendingChunks,
\* behind a submission that is outstanding
C29_EndedWithChunksPending ==
    /\ streamEnded /\ pc = "failed"
    /\ nread >= 2
    /\ Len(pendingChunks) >= 1
    /\ updating

\* C24: onComplete is called at most once per call of textToSpeechRealtime,
\* and only when the stream has ended, pendingChunks is empty and the
\* media source has been marked as ended; a playback whose stream has ended
\* and whose writer has drained everything (no submission outstanding, no
\* updateend to come, no audio error) has its media source marked as ended,
\* so that 'ended' and with it onComplete can come.
C24_OnCompleteOnceAfterDrain ==
    /\ onComplete <= 1
    /\ onComplete = 1
       => /\ streamEnded
          /\ Len(pendingChunks) = 0
          /\ Len(eosLog) >= 1
    /\ ( /\ ttsState.stage = "returned" /\ ttsState.result = "resolved"
         /\ streamEnded
         /\ Len(pendingChunks) = 0
         /\ ~updating
         /\ updateendQueued = 0
         /\ ~audioErrored )
       => readyState = "ended"

\* C31: a close event delivered by a transport that the manager no longer
\* holds, while it holds a newer transport that is connecting or open,
\* leaves the newer connection alone: the heartbeat interval the manager
\* holds keeps running and no reconnect timer is armed.
C31_StaleCloseLeavesNewerConnection ==
    [][\A t \in DOMAIN sockets :
          (/\ sockets[t].readyState # "CLOSED"
           /\ sockets'[t].readyState = "CLOSED"
           /\ ws # 0
           /\ ws # t
           /\ sockets[ws].readyState \in {"CONNECTING", "OPEN"})
          => /\ heartbeatTimer' = heartbeatTimer
             /\ heartbeats' = heartbeats
             /\ reconnectTimers' \subseteq reconnectTimers
             /\ reconnectCount' = reconnectCount]_vars

\* the tags of the manager's own transitions
LifecycleTags ==
    {"open", "close", "error", "reconnectFailed"}

\* C32: a task in which a transport delivers a message that parses
\* publishes none of the tags 'open', 'close', 'error', 'reconnectFailed'
\* and invokes no subscriber of them, whatever the type tag of the message
\* (the 'error' published for a payload that fails to parse is the
\* manager's own).
C32_MessagesPublishNoLifecycleTag ==
    [][\A t \in DOMAIN sockets, d \in Payloads :
          (SocketMessage(t, d) /\ ~ParseThrows(d) /\ ~TypeThrows(d))
          => /\ \A i \in DOMAIN published' :
                    published'[i].event \notin LifecycleTags
             /\ \A i \in DOMAIN called' :
                    called'[i].event \notin LifecycleTags]_vars

\* C33: once a call of textToSpeechRealtime has begun, onStart has been
\* invoked exactly once; and when the call has rejected, onError has been
\* invoked exactly once.
C33_OnStartOnceOnErrorOnce ==
    /\ ttsState.stage \in {"awaitStream", "awaitPlay", "returned"}
       => onStart = 1
    /\ (ttsState.stage = "returned" /\ ttsState.result # "resolved")
       => onError = 1

\* C34: as long as postStreamRealtime is still reading the response body
\* (the reading task has neither finished nor failed) and the request
\* deadline has not fired, the deadline is armed, so that a transfer that
\* stalls is aborted and the session reaches streamEnded.
C34_DeadlineArmedWhileReading ==
    (RT /\ pc \in {"read", "awaitOpen", "pause"} /\ ~aborted) => timeoutId

====
